---------------------------- MODULE Spec2Model ----------------------------
(***************************************************************************)
(* Model of modules/local/templates/mtx_to_h5ad_kallisto.py: the script    *)
(* that loads kallisto/bustools count matrices (one per transcript         *)
(* category), aligns them on the union of their cell barcodes, sums them   *)
(* and writes one .h5ad file.                                              *)
(*                                                                         *)
(* Barcodes and gene identifiers are numbered (1, 2, ...); a barcodes or   *)
(* genes file is the sequence of its lines.  Row and column identifiers    *)
(* within one file are unique, as bustools writes them.                    *)
(***************************************************************************)
EXTENDS Integers, Sequences, FiniteSets, TLC

\* ----------------------------- bounds ---------------------------------
\* number of distinct cell barcodes that can occur in the input files
MaxCells == 2
\* the gene identifiers that can occur in a genes file
Genes == {1, 2}
\* the counts a stored (non-zero) entry of a .mtx file can have
Counts == {1, 2}
\* a .mtx file stores at most one entry in this model (see MtxFiles)

Barcodes == 1..MaxCells

\* ------------------------- sequences and sets -------------------------
Range(s) == {s[i] : i \in 1..Len(s)}

IsUnique(s) == \A i, j \in 1..Len(s) : s[i] = s[j] => i = j

\* all sequences without repetition over S of length at most n
UniqueSeqs(S, n) ==
  UNION {{s \in [1..k -> S] : IsUnique(s)} : k \in 0..n}

\* list(a_set): Python fixes no iteration order for a set of strings (the
\* order depends on the process's hash seed), so any enumeration can result
ListOfSet(S) == {s \in [1..Cardinality(S) -> S] : Range(s) = S}

\* ascending enumeration of a set of identifiers
SortedSeq(S) ==
  CHOOSE s \in ListOfSet(S) : \A i, j \in 1..Len(s) : i < j => s[i] < s[j]

\* position of label x in the index s (pandas Index.get_indexer; 0 if absent)
IndexOf(s, x) ==
  IF x \in Range(s) THEN CHOOSE i \in 1..Len(s) : s[i] = x ELSE 0

\* ------------------------------ matrices ------------------------------
\* (variant) a matrix allocated without zeroing: every entry is 1
csr_ones(r, c) ==
  [nrows |-> r, ncols |-> c, rows |-> [i \in 1..r |-> [j \in 1..c |-> 1]]]

\* scipy.sparse.csr_matrix((r, c)): the all-zero r x c matrix
csr_matrix(r, c) ==
  [nrows |-> r, ncols |-> c, rows |-> [i \in 1..r |-> [j \in 1..c |-> 0]]]

\* the files of the input directory ----------------------------------
Absent == [exists |-> FALSE]

\* a MatrixMarket coordinate file: header (rows, columns) and stored entries
MtxFiles ==
  {[exists |-> TRUE, nrows |-> r, ncols |-> c, entries |-> e] :
     <<r, c, e>> \in
       UNION {UNION {{<<r, c, {}>>} \cup
                     {<<r, c, {<<i, j, v>>}>> :
                        <<i, j, v>> \in (1..r) \X (1..c) \X Counts}
                     : c \in 0..Cardinality(Genes)} : r \in 0..MaxCells}}

\* a barcodes file lists the cells of its matrix, each once, in ascending
\* order (bustools writes the barcodes of a sorted BUS file)
BarcodeFiles ==
  {[exists |-> TRUE, lines |-> SortedSeq(S)] : S \in SUBSET Barcodes}

FeatureFiles ==
  {[exists |-> TRUE, lines |-> s] : s \in UniqueSeqs(Genes, Cardinality(Genes))}

\* sc.read_mtx: the coordinate entries as a sparse matrix, zero elsewhere
read_mtx(m) ==
  [nrows |-> m.nrows, ncols |-> m.ncols,
   rows  |-> [i \in 1..m.nrows |-> [j \in 1..m.ncols |->
               IF \E e \in m.entries : e[1] = i /\ e[2] = j
               THEN (CHOOSE e \in m.entries : e[1] = i /\ e[2] = j)[3]
               ELSE 0]]]

\* ------------------------------- tables -------------------------------
NoTable == [undefined |-> TRUE]

\* AnnData(X=..., obs=index, var=index)
AnnDataOf(X, obs, var) == [X |-> X, obs |-> obs, var |-> var]

\* (variant) the lengths of the side tables are not checked
LoadOutcomeUnchecked(m, b, f) ==
  IF ~m.exists \/ ~b.exists \/ ~f.exists THEN "IndexError"
  ELSE IF Len(b.lines) = 0 \/ Len(f.lines) = 0 THEN "EmptyDataError"
  ELSE "ok"

\* outcome of _mtx_to_adata on three globbed files, in the order the script
\* meets the errors: "IndexError" when a glob matched nothing (glob(...)[0]),
\* "EmptyDataError" when read_csv finds no line in a side table,
\* "ValueError" when a side table's length differs from the matrix
\* dimension (obs_names / var_names setter)
LoadOutcome(m, b, f) ==
  IF ~m.exists \/ ~b.exists \/ ~f.exists THEN "IndexError"
  ELSE IF Len(b.lines) = 0 THEN "EmptyDataError"
  ELSE IF Len(b.lines) # m.nrows THEN "ValueError"
  ELSE IF Len(f.lines) = 0 THEN "EmptyDataError"
  ELSE IF Len(f.lines) # m.ncols THEN "ValueError"
  ELSE "ok"

_mtx_to_adata(m, b, f) == AnnDataOf(read_mtx(m), b.lines, f.lines)


\* pandas Index.union (sort=None): the result is sorted except when the two
\* indexes are equal or one of them is empty
IndexUnion(a, b) ==
  IF a = b THEN a
  ELSE IF Len(b) = 0 THEN a
  ELSE IF Len(a) = 0 THEN b
  ELSE SortedSeq(Range(a) \cup Range(b))

\* the rows of table t over the column index var, zero where t lacks a column
ReindexColumns(t, var) ==
  [i \in 1..t.X.nrows |-> [j \in 1..Len(var) |->
     IF IndexOf(t.var, var[j]) = 0 THEN 0
     ELSE t.X.rows[i][IndexOf(t.var, var[j])]]]

\* anndata.concat([a, b], join="outer"): rows of a then rows of b, over the
\* union of the two column indexes
concat_ad(a, b) ==
  LET var == IndexUnion(a.var, b.var)
  IN  AnnDataOf([nrows |-> a.X.nrows + b.X.nrows, ncols |-> Len(var),
                 rows  |-> ReindexColumns(a, var) \o ReindexColumns(b, var)],
                a.obs \o b.obs, var)

\* (variant) the labels are assigned to the rows in place, nothing is moved
SelectRowsPositional(t, labels) ==
  AnnDataOf([nrows |-> Len(labels), ncols |-> t.X.ncols,
             rows  |-> [i \in 1..Len(labels) |-> t.X.rows[i]]],
            labels, t.var)

\* t[labels, :]: the rows of t selected by label, in the order of labels
SelectRows(t, labels) ==
  AnnDataOf([nrows |-> Len(labels), ncols |-> t.X.ncols,
             rows  |-> [i \in 1..Len(labels) |->
                          t.X.rows[IndexOf(t.obs, labels[i])]]],
            labels, t.var)

\* element-wise sum of two sparse matrices of one shape (A + B)
MatAdd(A, B) ==
  [nrows |-> A.nrows, ncols |-> A.ncols,
   rows  |-> [i \in 1..A.nrows |-> [j \in 1..A.ncols |->
                A.rows[i][j] + B.rows[i][j]]]]

\* ----------------------------- workflows ------------------------------
Workflows == {"standard", "lamanno", "nac", "other"}

\* the per-category tables of a workflow, in the order the script loads them
Categories(w) ==
  IF w = "lamanno" THEN <<"spliced", "unspliced">>
  ELSE IF w = "nac" THEN <<"nascent", "ambiguous", "mature">>
  ELSE <<>>

AllCats == {"spliced", "unspliced", "nascent", "ambiguous", "mature"}

\* (variant) only the first category's barcodes
UnionOfFirst(tables, cats) == Range(tables[cats[1]].obs)

\* set(a.obs_names) | set(b.obs_names) | ...
UnionOf(tables, cats) == UNION {Range(tables[c].obs) : c \in Range(cats)}

\* (variant) the table's barcodes are not subtracted
MissingOfAll(all, t) == Range(all)

\* set(all_barcodes) - set(t.obs_names)
MissingOf(all, t) == Range(all) \ Range(t.obs)

\* AnnData(X=csr_matrix((len(missing), t.shape[1])), obs=missing, var=t.var)
Complement(missing, t) ==
  AnnDataOf(csr_matrix(Len(missing), t.X.ncols), missing, t.var)

\* (variant) the concatenation is not reordered to all_barcodes
AlignedNoReorder(t, ad_miss, all) == concat_ad(t, ad_miss)

\* concat_ad([t, ad_missing], join="outer")[all_barcodes, :]
Aligned(t, ad_miss, all) == SelectRows(concat_ad(t, ad_miss), all)

\* (variant) the assertion is not made
CompareColumnsLax(a, b) == "ok"

\* np.all(a.var_names == b.var_names): comparing indexes of different
\* lengths raises ValueError, otherwise the assertion passes or fails
CompareColumns(a, b) ==
  IF Len(a.var) # Len(b.var) THEN "ValueError"
  ELSE IF a.var = b.var THEN "ok"
  ELSE "AssertionError"

\* the first assertion (in source order) that does not pass, or "ok"
CheckOutcome(w, tables) ==
  IF w = "lamanno" THEN CompareColumns(tables["spliced"], tables["unspliced"])
  ELSE IF CompareColumns(tables["nascent"], tables["ambiguous"]) # "ok"
       THEN CompareColumns(tables["nascent"], tables["ambiguous"])
       ELSE CompareColumns(tables["mature"], tables["ambiguous"])

\* (variant) only the first two categories are summed
SumOfTwo(tables, cats) == MatAdd(tables[cats[1]].X, tables[cats[2]].X)

\* X=a.X + b.X (+ c.X), summed left to right in the order of Categories
SumOf(tables, cats) ==
  IF Len(cats) = 2 THEN MatAdd(tables[cats[1]].X, tables[cats[2]].X)
  ELSE MatAdd(MatAdd(tables[cats[1]].X, tables[cats[2]].X), tables[cats[3]].X)

\* (variant) every layer holds the first category's matrix
LayersOfFirst(tables, cats) == [c \in Range(cats) |-> tables[cats[1]].X]

\* layers={"spliced": spliced.X, ...}
LayersOf(tables, cats) == [c \in Range(cats) |-> tables[c].X]

\* the assembled AnnData of a merge workflow
Assembled(w, tables, all) ==
  [X      |-> SumOf(tables, Categories(w)),
   layers |-> LayersOf(tables, Categories(w)),
   obs    |-> all,
   var    |-> tables[Categories(w)[1]].var,
   sample |-> ""]

\* "${meta.id}"
SampleId == "sample1"

\* ------------------------------- state --------------------------------
VARIABLES
  workflow,      \* "${params.kb_workflow}"
  pc,            \* the statement the script is about to run
  err,           \* the exception that ended the script, "" if none
  dir_made,      \* os.makedirs("${meta.id}") ran
  barcodes,      \* nac: the globbed barcodes file
  features,      \* nac: the globbed genes file
  tbl,           \* the variables spliced, unspliced, nascent, ambiguous, mature
  all_barcodes,  \* the list all_barcodes
  ad_missing,    \* the variables ad_missing_<category>
  adata,         \* the variable adata
  h5ad_written,  \* number of times write_h5ad has written the output file
  versions_yml,  \* versions.yml has been written
  orig,          \* history: each category's table as _mtx_to_adata returned it
  prev           \* history: the AnnData written by the previous invocation

vars == <<workflow, pc, err, dir_made, barcodes, features, tbl, all_barcodes,
          ad_missing, adata, h5ad_written, versions_yml, orig, prev>>

NoTables == [c \in AllCats |-> NoTable]

Init ==
  /\ workflow \in Workflows
  /\ pc = "start"
  /\ err = ""
  /\ dir_made = FALSE
  /\ barcodes = Absent
  /\ features = Absent
  /\ tbl = NoTables
  /\ all_barcodes = <<>>
  /\ ad_missing = NoTables
  /\ adata = NoTable
  /\ h5ad_written = 0
  /\ versions_yml = FALSE
  /\ orig = [c \in AllCats \cup {"adata"} |-> NoTable]
  /\ prev = NoTable

\* the script has run before on these inputs (and completed)
rerun == prev # NoTable

\* an uncaught exception ends the script
Abort(e) ==
  /\ pc' = "aborted"
  /\ err' = e
  /\ UNCHANGED <<workflow, dir_made, barcodes, features, tbl, all_barcodes,
                 ad_missing, adata, h5ad_written, versions_yml, orig, prev>>

\* an invocation on the inputs of the previous one reads the same files
SameInput(name, m, b, f) ==
  orig[name] # NoTable =>
    LoadOutcome(m, b, f) = "ok" /\ _mtx_to_adata(m, b, f) = orig[name]

\* the category the script loads next
NextCat ==
  LET cats == Categories(workflow)
  IN  cats[CHOOSE i \in 1..Len(cats) :
             tbl[cats[i]] = NoTable /\ \A j \in 1..(i-1) : tbl[cats[j]] # NoTable]

AfterLoad(t) == IF \A c \in Range(Categories(workflow)) : t[c] # NoTable
                THEN "reconcile" ELSE "load"

\* os.makedirs and the dispatch on kb_workflow
Start ==
  /\ pc = "start"
  /\ dir_made' = TRUE
  /\ pc' = IF workflow = "standard" THEN "load_standard"
           ELSE IF workflow = "lamanno" THEN "load"
           ELSE IF workflow = "nac" THEN "nac_glob"
           ELSE "add_metadata"
  /\ UNCHANGED <<workflow, err, barcodes, features, tbl, all_barcodes,
                 ad_missing, adata, h5ad_written, versions_yml, orig, prev>>

\* standard: adata = _mtx_to_adata(...)
LoadStandard ==
  /\ pc = "load_standard"
  /\ \E m \in MtxFiles \cup {Absent}, b \in BarcodeFiles \cup {Absent},
        f \in FeatureFiles \cup {Absent} :
       /\ SameInput("adata", m, b, f)
       /\ \/ /\ LoadOutcome(m, b, f) # "ok"
             /\ Abort(LoadOutcome(m, b, f))
          \/ /\ LoadOutcome(m, b, f) = "ok"
             /\ adata' = [X |-> read_mtx(m), layers |-> <<>>,
                          obs |-> b.lines, var |-> f.lines, sample |-> ""]
             /\ orig' = [orig EXCEPT !["adata"] = _mtx_to_adata(m, b, f)]
             /\ pc' = "add_metadata"
             /\ UNCHANGED <<workflow, err, dir_made, barcodes, features, tbl,
                            all_barcodes, ad_missing, h5ad_written,
                            versions_yml, prev>>

\* lamanno: spliced = _mtx_to_adata(...), then unspliced = _mtx_to_adata(...)
LoadSplit ==
  /\ pc = "load"
  /\ workflow = "lamanno"
  /\ \E m \in MtxFiles \cup {Absent}, b \in BarcodeFiles \cup {Absent},
        f \in FeatureFiles \cup {Absent} :
       /\ SameInput(NextCat, m, b, f)
       /\ \/ /\ LoadOutcome(m, b, f) # "ok"
             /\ Abort(LoadOutcome(m, b, f))
          \/ /\ LoadOutcome(m, b, f) = "ok"
             /\ tbl' = [tbl EXCEPT ![NextCat] = _mtx_to_adata(m, b, f)]
             /\ orig' = [orig EXCEPT ![NextCat] = _mtx_to_adata(m, b, f)]
             /\ pc' = AfterLoad(tbl')
             /\ UNCHANGED <<workflow, err, dir_made, barcodes, features,
                            all_barcodes, ad_missing, adata, h5ad_written,
                            versions_yml, prev>>

\* nac: one barcodes file and one genes file are globbed for all categories
NacGlob ==
  /\ pc = "nac_glob"
  /\ \E b \in BarcodeFiles \cup {Absent}, f \in FeatureFiles \cup {Absent} :
       /\ orig["nascent"] # NoTable =>
            /\ b.exists /\ f.exists
            /\ b.lines = orig["nascent"].obs /\ f.lines = orig["nascent"].var
       /\ \/ /\ ~b.exists \/ ~f.exists
             /\ Abort("IndexError")
          \/ /\ b.exists /\ f.exists
             /\ barcodes' = b
             /\ features' = f
             /\ pc' = "load"
             /\ UNCHANGED <<workflow, err, dir_made, tbl, all_barcodes,
                            ad_missing, adata, h5ad_written, versions_yml,
                            orig, prev>>

\* nac: nascent, ambiguous, mature = _mtx_to_adata(<own matrix>, barcodes, features)
LoadNac ==
  /\ pc = "load"
  /\ workflow = "nac"
  /\ \E m \in MtxFiles \cup {Absent} :
       /\ SameInput(NextCat, m, barcodes, features)
       /\ \/ /\ LoadOutcome(m, barcodes, features) # "ok"
             /\ Abort(LoadOutcome(m, barcodes, features))
          \/ /\ LoadOutcome(m, barcodes, features) = "ok"
             /\ tbl' = [tbl EXCEPT ![NextCat] = _mtx_to_adata(m, barcodes, features)]
             /\ orig' = [orig EXCEPT ![NextCat] = _mtx_to_adata(m, barcodes, features)]
             /\ pc' = AfterLoad(tbl')
             /\ UNCHANGED <<workflow, err, dir_made, barcodes, features,
                            all_barcodes, ad_missing, adata, h5ad_written,
                            versions_yml, prev>>

\* all_barcodes = list(set | set ...); missing_c = list(set - set);
\* ad_missing_c = AnnData(zeros, obs=missing_c, var=c.var)
Reconcile ==
  LET cats == Categories(workflow)
      lists(all, i) == IF i <= Len(cats)
                       THEN ListOfSet(MissingOf(all, tbl[cats[i]]))
                       ELSE {<<>>}
  IN
  /\ pc = "reconcile"
  /\ \E all \in ListOfSet(UnionOf(tbl, cats)) :
       \E m1 \in lists(all, 1), m2 \in lists(all, 2), m3 \in lists(all, 3) :
         /\ all_barcodes' = all
         /\ ad_missing' = [c \in AllCats |->
              IF c \in Range(cats)
              THEN Complement(<<m1, m2, m3>>[IndexOf(cats, c)], tbl[c])
              ELSE NoTable]
  /\ pc' = "align"
  /\ UNCHANGED <<workflow, err, dir_made, barcodes, features, tbl, adata,
                 h5ad_written, versions_yml, orig, prev>>

\* c = concat_ad([c, ad_missing_c], join="outer")[all_barcodes, :]
Align ==
  /\ pc = "align"
  /\ tbl' = [c \in AllCats |->
       IF c \in Range(Categories(workflow))
       THEN Aligned(tbl[c], ad_missing[c], all_barcodes) ELSE NoTable]
  /\ pc' = "check"
  /\ UNCHANGED <<workflow, err, dir_made, barcodes, features, all_barcodes,
                 ad_missing, adata, h5ad_written, versions_yml, orig, prev>>

\* assert np.all(a.var_names == b.var_names)
CheckColumns ==
  /\ pc = "check"
  /\ \/ /\ CheckOutcome(workflow, tbl) # "ok"
        /\ Abort(CheckOutcome(workflow, tbl))
     \/ /\ CheckOutcome(workflow, tbl) = "ok"
        /\ pc' = "assemble"
        /\ UNCHANGED <<workflow, err, dir_made, barcodes, features, tbl,
                       all_barcodes, ad_missing, adata, h5ad_written,
                       versions_yml, orig, prev>>

\* adata = AnnData(X=sum, layers=..., obs=all_barcodes, var=var_names)
Assemble ==
  /\ pc = "assemble"
  /\ adata' = Assembled(workflow, tbl, all_barcodes)
  /\ pc' = "add_metadata"
  /\ UNCHANGED <<workflow, err, dir_made, barcodes, features, tbl,
                 all_barcodes, ad_missing, h5ad_written, versions_yml, orig,
                 prev>>

\* _add_metadata(adata, t2g, sample): adata is unbound when kb_workflow is
\* not a recognised value; read_table fails when the t2g file is absent.
\* The join of gene symbols onto var is not modelled.
AddMetadata ==
  /\ pc = "add_metadata"
  /\ \/ /\ adata = NoTable
        /\ Abort("NameError")
     \/ /\ adata # NoTable
        /\ ~rerun
        /\ Abort("FileNotFoundError")
     \/ /\ adata # NoTable
        /\ adata' = [adata EXCEPT !.sample = SampleId]
        /\ pc' = "write"
        /\ UNCHANGED <<workflow, err, dir_made, barcodes, features, tbl,
                       all_barcodes, ad_missing, h5ad_written, versions_yml,
                       orig, prev>>

\* adata.write_h5ad(...)
WriteH5ad ==
  /\ pc = "write"
  /\ h5ad_written' = h5ad_written + 1
  /\ pc' = "dump_versions"
  /\ UNCHANGED <<workflow, err, dir_made, barcodes, features, tbl,
                 all_barcodes, ad_missing, adata, versions_yml, orig, prev>>

\* dump_versions()
DumpVersions ==
  /\ pc = "dump_versions"
  /\ versions_yml' = TRUE
  /\ pc' = "done"
  /\ UNCHANGED <<workflow, err, dir_made, barcodes, features, tbl,
                 all_barcodes, ad_missing, adata, h5ad_written, orig, prev>>

Next ==
  \/ Start
  \/ LoadStandard
  \/ LoadSplit
  \/ NacGlob
  \/ LoadNac
  \/ Reconcile
  \/ Align
  \/ CheckColumns
  \/ Assemble
  \/ AddMetadata
  \/ WriteH5ad
  \/ DumpVersions

Spec == Init /\ [][Next]_vars

\* a second invocation of the script, as a new process, on the same input
\* files: the program variables start afresh, the files are as they were
Reinvoke ==
  /\ pc = "done"
  /\ ~rerun
  /\ prev' = adata
  /\ pc' = "start"
  /\ dir_made' = FALSE
  /\ barcodes' = Absent
  /\ features' = Absent
  /\ tbl' = NoTables
  /\ all_barcodes' = <<>>
  /\ ad_missing' = NoTables
  /\ adata' = NoTable
  /\ h5ad_written' = 0
  /\ versions_yml' = FALSE
  /\ UNCHANGED <<workflow, err, orig>>

NextRerun == Next \/ Reinvoke

SpecRerun == Init /\ [][NextRerun]_vars


\* ------------------------- what the claims speak of -------------------
MergeWorkflows == {"lamanno", "nac"}

Cats == Range(Categories(workflow))

\* the union index and the complements have been computed
Reconciled ==
  workflow \in MergeWorkflows /\ \A c \in Cats : ad_missing[c] # NoTable

\* the alignment step has run: tbl holds the aligned tables
AfterAlign == Reconciled /\ pc # "align"

\* the merged AnnData has been built
IsAssembled == workflow \in MergeWorkflows /\ adata # NoTable

\* entry of the c-th originally loaded table in the row of barcode r
OrigRowOf(c, r) == orig[c].X.rows[IndexOf(orig[c].obs, r)]

\* category c's loaded table has every barcode of the union
Covers(c) == Range(orig[c].obs) = Range(all_barcodes)

\* C1: after alignment every aligned table has the row identifiers
\* all_barcodes, as a sequence (same length, same order), with one matrix row
\* per identifier, and the assembled output has the same row identifiers.
C1_AlignedRowsAreUnion ==
  /\ AfterAlign =>
       \A c \in Cats :
         /\ tbl[c].obs = all_barcodes
         /\ tbl[c].X.nrows = Len(all_barcodes)
         /\ Len(tbl[c].X.rows) = Len(all_barcodes)
  /\ IsAssembled => adata.obs = all_barcodes

C1_Witness ==
  /\ pc = "done"
  /\ workflow = "lamanno"
  /\ Range(orig["spliced"].obs) # Range(orig["unspliced"].obs)
  /\ Len(all_barcodes) >= 2
  /\ all_barcodes # orig["spliced"].obs \o ad_missing["spliced"].obs

\* C2: all_barcodes holds every barcode of every loaded table, no barcode
\* that is in none of them, and each barcode once.
C2_UnionExact ==
  Reconciled =>
    /\ \A b \in Barcodes :
         b \in Range(all_barcodes) <=> \E c \in Cats : b \in Range(orig[c].obs)
    /\ Range(all_barcodes) \subseteq Barcodes
    /\ IsUnique(all_barcodes)

C2_Witness ==
  /\ Reconciled
  /\ workflow = "lamanno"
  /\ Len(all_barcodes) = 2
  /\ Len(orig["spliced"].obs) = 1
  /\ Len(orig["unspliced"].obs) = 1

\* C3: in an aligned table, the row of a barcode the category's loaded
\* table did not have is zero in every column.
C3_ZeroFill ==
  AfterAlign =>
    \A c \in Cats : \A i \in 1..Len(all_barcodes) :
      all_barcodes[i] \notin Range(orig[c].obs) =>
        /\ Len(tbl[c].X.rows[i]) = Len(orig[c].var)
        /\ \A j \in 1..Len(tbl[c].X.rows[i]) : tbl[c].X.rows[i][j] = 0

C3_Witness ==
  /\ AfterAlign
  /\ \E c \in Cats : \E i \in 1..Len(all_barcodes) :
       /\ all_barcodes[i] \notin Range(orig[c].obs)
       /\ Len(orig[c].var) >= 1
       /\ \E k \in 1..Len(all_barcodes) : \E j \in 1..Len(orig[c].var) :
            tbl[c].X.rows[k][j] # 0

\* the sum over the categories cs of the aligned entries at (i, j)
RECURSIVE EntrySum(_, _, _)
EntrySum(cs, i, j) ==
  IF cs = {} THEN 0
  ELSE LET c == CHOOSE x \in cs : TRUE
       IN  tbl[c].X.rows[i][j] + EntrySum(cs \ {c}, i, j)

\* C4: every entry of the primary matrix is the sum over the categories of
\* the aligned tables' entries at the same position, rows being in the order
\* of all_barcodes.
C4_SumCorrect ==
  IsAssembled =>
    /\ adata.obs = all_barcodes
    /\ adata.X.nrows = Len(all_barcodes)
    /\ Len(adata.X.rows) = Len(all_barcodes)
    /\ \A i \in 1..Len(all_barcodes) :
         /\ Len(adata.X.rows[i]) = Len(adata.var)
         /\ \A j \in 1..Len(adata.var) :
              adata.X.rows[i][j] = EntrySum(Cats, i, j)

C4_Witness ==
  /\ IsAssembled
  /\ pc = "done"
  /\ all_barcodes # SortedSeq(Range(all_barcodes))
  /\ \E i \in 1..Len(all_barcodes) : \E j \in 1..Len(adata.var) :
       /\ adata.X.rows[i][j] >= 2
       /\ \A c \in Cats : tbl[c].X.rows[i][j] >= 1

\* C5: the assembled output has one layer per category, named after it
\* (spliced, unspliced; nascent, ambiguous, mature), holding that category's
\* aligned matrix, of the shape of the primary matrix.
C5_LayersPerCategory ==
  IsAssembled =>
    /\ workflow = "lamanno" => DOMAIN adata.layers = {"spliced", "unspliced"}
    /\ workflow = "nac" =>
         DOMAIN adata.layers = {"nascent", "ambiguous", "mature"}
    /\ \A c \in DOMAIN adata.layers :
         /\ adata.layers[c] = tbl[c].X
         /\ adata.layers[c].nrows = adata.X.nrows
         /\ adata.layers[c].ncols = adata.X.ncols
         /\ Len(adata.layers[c].rows) = Len(adata.X.rows)

C5_Witness ==
  /\ IsAssembled
  /\ pc = "done"
  /\ workflow = "nac"
  /\ adata.layers["nascent"] # adata.layers["ambiguous"]
  /\ adata.layers["mature"] # adata.layers["ambiguous"]
  /\ adata.layers["nascent"] # adata.layers["mature"]

\* the aligned table of c has exactly the rows of the loaded table, each
\* under its own barcode
OnlyReordered(c) ==
  /\ tbl[c].X.nrows = orig[c].X.nrows
  /\ Len(tbl[c].obs) = Len(orig[c].obs)
  /\ Range(tbl[c].obs) = Range(orig[c].obs)
  /\ \A i \in 1..Len(tbl[c].obs) : tbl[c].X.rows[i] = OrigRowOf(c, tbl[c].obs[i])

\* C6: the complement of a category that has every barcode of the union is
\* a table of 0 rows with the category's columns; the category is still
\* aligned (concatenated with it and reordered) without an error of the
\* alignment, and then holds exactly its loaded rows.  When all categories
\* have the same barcodes every complement has 0 rows.
C6_ZeroRowComplement ==
  /\ Reconciled =>
       \A c \in Cats : Covers(c) =>
         /\ ad_missing[c].X.nrows = 0
         /\ ad_missing[c].X.rows = <<>>
         /\ ad_missing[c].X.ncols = Len(orig[c].var)
         /\ ad_missing[c].obs = <<>>
         /\ ad_missing[c].var = orig[c].var
  /\ AfterAlign =>
       \A c \in Cats : Covers(c) =>
         /\ OnlyReordered(c)
         /\ pc = "aborted" =>
              err \in {"ValueError", "AssertionError", "FileNotFoundError"}

C6_Witness ==
  /\ AfterAlign
  /\ pc = "done"
  /\ workflow = "lamanno"
  /\ \A c \in Cats : Covers(c)
  /\ Len(all_barcodes) = MaxCells
  /\ tbl["spliced"].obs # orig["spliced"].obs
  /\ \E i, k \in 1..Len(all_barcodes) :
       tbl["spliced"].X.rows[i] # tbl["spliced"].X.rows[k]

\* two aligned tables have different column identifiers
ColumnsDiffer == \E c, d \in Cats : tbl[c].var # tbl[d].var

\* C7: when the aligned tables' column identifiers differ, the script stops
\* with an error at the assertion: nothing is summed, assembled or written;
\* the sum is only built from tables with equal column identifiers.
C7_ColumnMismatchAborts ==
  /\ (AfterAlign /\ ColumnsDiffer) =>
       /\ pc \in {"check", "aborted"}
       /\ pc = "aborted" => err \in {"ValueError", "AssertionError"}
       /\ adata = NoTable
       /\ h5ad_written = 0
  /\ (pc = "assemble" \/ IsAssembled) => ~ColumnsDiffer

C7_Witness ==
  /\ AfterAlign
  /\ ColumnsDiffer
  /\ pc = "aborted"
  /\ err = "AssertionError"
  /\ Len(all_barcodes) >= 1

\* C8: a second invocation on the same inputs ends with the AnnData the
\* first one ended with (row order, column order, matrix and layers).
C8_SameInputsSameOutput ==
  (pc = "done" /\ rerun) => adata = prev

\* the AnnData is well formed: one identifier per row and per column
WellFormed(a) ==
  /\ Len(a.obs) = a.X.nrows
  /\ Len(a.var) = a.X.ncols
  /\ Len(a.X.rows) = a.X.nrows
  /\ \A i \in 1..a.X.nrows : Len(a.X.rows[i]) = a.X.ncols

\* C9: the output file is written at most once, and only after all the
\* earlier steps succeeded; a script that ended with an error has written
\* nothing, a script that completed has written the file once.
C9_WriteOnlyAfterSuccess ==
  /\ h5ad_written \in {0, 1}
  /\ pc = "aborted" => h5ad_written = 0 /\ err # ""
  /\ pc = "done" => h5ad_written = 1
  /\ h5ad_written = 1 =>
       /\ pc \in {"dump_versions", "done"}
       /\ err = ""
       /\ workflow \in {"standard", "lamanno", "nac"}
       /\ adata # NoTable
       /\ adata.sample = SampleId
       /\ WellFormed(adata)
       /\ workflow = "standard" => orig["adata"] # NoTable
       /\ workflow \in MergeWorkflows =>
            /\ \A c \in Cats : orig[c] # NoTable /\ WellFormed(orig[c])
            /\ AfterAlign
            /\ ~ColumnsDiffer
  /\ pc \notin {"dump_versions", "done"} => h5ad_written = 0

C9_Witness ==
  /\ pc = "done"
  /\ h5ad_written = 1
  /\ workflow = "lamanno"
  /\ Len(all_barcodes) >= 2

\* C10: in an aligned table, the row under barcode r (at r's position in
\* all_barcodes) is the loaded table's row of r, for every barcode r of the
\* loaded table; the loaded and the missing barcodes are disjoint and
\* together are all_barcodes.
C10_OriginalRowsKept ==
  AfterAlign =>
    \A c \in Cats :
      /\ Range(orig[c].obs) \cap Range(ad_missing[c].obs) = {}
      /\ Range(orig[c].obs) \cup Range(ad_missing[c].obs) = Range(all_barcodes)
      /\ Len(orig[c].obs) + Len(ad_missing[c].obs) = Len(all_barcodes)
      /\ \A r \in Range(orig[c].obs) :
           /\ IndexOf(all_barcodes, r) # 0
           /\ tbl[c].X.rows[IndexOf(all_barcodes, r)] = OrigRowOf(c, r)

C10_Witness ==
  /\ AfterAlign
  /\ \E c \in Cats :
       /\ Len(orig[c].obs) >= 1
       /\ Len(ad_missing[c].obs) >= 1
       /\ \E r \in Range(orig[c].obs) :
            /\ IndexOf(all_barcodes, r) # IndexOf(orig[c].obs, r)
            /\ \E j \in 1..Len(orig[c].var) : OrigRowOf(c, r)[j] # 0

=============================================================================
